---- MODULE Spec2Model ----
(***************************************************************************)
(* Session / Transaction / Result of neo4j/session.py over one connection. *)
(*                                                                         *)
(* One caller drives one Session.  Every Session.run call is split at its  *)
(* blocking points: the part that builds the Result and queues RUN and     *)
(* PULL_ALL (lines 157-170), connection.send() (line 172), one fetch_next  *)
(* per loop turn (lines 175-177) and the return (lines 179-182) together   *)
(* with what the caller of Session.run does next (Transaction.__init__,    *)
(* Transaction.close).  The server answers the requests in submission      *)
(* order, one message at a time.                                           *)
(*                                                                         *)
(* Spec is that Session; LiveSpec adds fairness of the caller and of the   *)
(* server.  RecordSpec looks fields up on one Record, DriverSpec builds    *)
(* a Driver and obtains Sessions from it, PullSpec runs one statement on a *)
(* Session obtained with a fetch size, RetrySpec lets the retry executor   *)
(* drive the Session.                                                      *)
(***************************************************************************)
EXTENDS Integers, Sequences, FiniteSets, TLC

\* ---------------------------------------------------------------- bounds
MaxRuns == 3        \* Session.run invocations in one behaviour
MaxTx == 2          \* Transaction objects constructed in one behaviour
MaxFailures == 1    \* FAILURE responses the server gives in one behaviour
MaxExecRuns == 6    \* Session.run invocations of one call of the executor

\* ---------------------------------------------------------------- inputs
UserStatements == {"A", "B"}
ControlStatements == {"BEGIN", "COMMIT", "ROLLBACK"}

\* The rows the server streams for a statement, in server order.
Stream(stmt) ==
    CASE stmt = "A" -> << <<1>>, <<2>> >>
      [] stmt = "B" -> << <<5>>, <<6>> >>
      [] stmt = "UNWIND" -> << <<1>>, <<2>>, <<3>>, <<4>> >>
      [] OTHER -> << >>

\* The "fields" entry of the SUCCESS metadata that answers RUN.
Fields(stmt) ==
    IF stmt \in UserStatements \cup {"UNWIND"} THEN <<"x">> ELSE << >>

SUMMARY == {"SUCCESS", "FAILURE", "IGNORED"}

VARIABLES
    transaction,   \* Session.transaction: 0 is None, else a Transaction id
    txs,           \* the Transaction objects, by id (1..Len)
    handles,       \* ids of the Transactions new_transaction returned
    results,       \* the Result objects with their two Responses, by run
    responses,     \* connection.responses: pending <<run, kind>> pairs
    outbox,        \* requests appended and not yet sent
    wire,          \* requests sent and not yet answered by the server
    inbound,       \* response messages not yet fetched
    sent,          \* every request sent so far, in order (history)
    server,        \* the server's position in the request stream, and the
                   \* calls it answered with FAILURE (history)
    released,      \* connection.close() has been called
    pc,            \* where the caller is inside Session.run
    ctx,           \* the call that Session.run is running for
    scope,         \* the with-block over a Transaction, if any
    outcome,       \* how the latest API call ended
    lookup,        \* a Record and the latest lookup made on it
    driver,        \* the Driver object, or how its construction ended
    sessions,      \* the Session objects Driver.session returned, in order
    network,       \* every network operation so far, in order (history)
    exec           \* the retry executor: its position and its attempts

\* The variables of one Session and its connection.
session == <<transaction, txs, handles, results, responses, outbox, wire,
             inbound, sent, server, released, pc, ctx, scope, outcome>>

vars == <<session, lookup, driver, sessions, network, exec>>

NoCtx == [op |-> "none", tx |-> 0, res |-> 0, with |-> FALSE]
NoScope == [tx |-> 0, exc |-> FALSE]

NoLookup == [made |-> FALSE]

\* An error as the retry executor sees it: its classification, the step of
\* the attempt that raised it, and the attempt.
NoError == [kind |-> "none", from |-> "none", attempt |-> 0]

\* The retry executor before execute is called.
NoExec ==
    [state |-> "none", attempts |-> << >>, invoked |-> 0, result |-> << >>,
     error |-> NoError]

\* Session.__init__ over a connection that connect() has just returned.
SessionInit ==
    /\ transaction = 0
    /\ txs = << >>
    /\ handles = {}
    /\ results = << >>
    /\ responses = << >>
    /\ outbox = << >>
    /\ wire = << >>
    /\ inbound = << >>
    /\ sent = << >>
    /\ server = [stmt |-> "none", pos |-> 0, ignore |-> FALSE, failures |-> 0,
                 failed |-> {}]
    /\ released = FALSE
    /\ pc = "idle"
    /\ ctx = NoCtx
    /\ scope = NoScope
    /\ outcome = [op |-> "none", tx |-> 0, err |-> "none"]

\* ---------------------------------------------------------------------- Driver
MaxSessions == 2    \* Driver.session calls in one behaviour
MaxEvents == 4      \* network operations in one behaviour

\* A URL is written as its parts, <<scheme, host, port>>.
Schemes == {"bolt", "http", "file"}
Hosts == {"localhost"}
Ports == {7687, 7474}
URLs == {<<s, h, p>> : s \in Schemes, h \in Hosts, p \in Ports}

\* The fetch_size entry of a config: 0 when there is none.
FetchSizes == {0, 1, 2}

\* compat.urlparse
urlparse(url) == [scheme |-> url[1], hostname |-> url[2], port |-> url[3]]

NoDriver == [state |-> "none"]

\* Mutant of SupportedScheme: every scheme is accepted.
SupportedScheme_Any(scheme) == TRUE

\* 'if parsed.scheme == "bolt"'
SupportedScheme(scheme) == scheme = "bolt"

\* Driver.__init__: the object, or the exception that leaves the constructor.
Driver(url, config) ==
    LET parsed == urlparse(url) IN
    IF SupportedScheme(parsed.scheme)
    THEN [state |-> "built", url |-> url, host |-> parsed.hostname,
          port |-> parsed.port, config |-> config, err |-> "none"]
    ELSE [state |-> "failed", url |-> url, host |-> "", port |-> 0,
          config |-> 0, err |-> "ValueError"]

\* One network operation: opening a connection to host:port, or a send or a
\* fetch of a Session (session, history) on a connection.
Event(op, connection, s, host, port, config) ==
    [op |-> op, connection |-> connection, session |-> s, host |-> host,
     port |-> port, config |-> config]

\* connection.connect: a new connection on a new socket, numbered in the
\* order of opening.
connect(log) == Cardinality({i \in DOMAIN log : log[i].op = "connect"}) + 1

\* Mutant of NewSession: every Session is given the first connection.
NewSession_Shared(connection) == [connection |-> 1]

\* Session.__init__: "self.connection = connection"
NewSession(connection) == [connection |-> connection]

\* The state Driver.session leaves with a driver for url: one connection
\* opened with config, one Session over it.
Connected(url, config) ==
    /\ driver = Driver(url, 0)
    /\ sessions = <<NewSession(connect(<< >>))>>
    /\ network = <<Event("connect", connect(<< >>), 0, driver.host,
                         driver.port, config)>>

Init ==
    /\ SessionInit
    /\ lookup = NoLookup
    /\ Connected(<<"bolt", "localhost", 7687>>, 0)
    /\ exec = NoExec

\* ------------------------------------------------------------ Record, Result
\* typesystem.hydrated: the rows of Stream hold integers only, and a value
\* that is no structure, list or map is returned as it is.
hydrated(value) == value

\* Record.__init__
Record(keys, values) == [keys |-> keys, values |-> values]

\* Result.__init__ (an empty list; keys None is written header FALSE with
\* keys << >>) together with the complete flags of the two Response objects
\* Session.run creates for it.  stmt, op, tx and got are history: the
\* statement run, the method that called Session.run, the Transaction it was
\* called for (for the user's own call, the one open at the time), and the
\* records the caller has read from the list so far.
NewResult(stmt, op, t) ==
    [stmt |-> stmt, op |-> op, tx |-> t, header |-> FALSE, keys |-> << >>,
     records |-> << >>, runComplete |-> FALSE, pullComplete |-> FALSE,
     returned |-> FALSE, got |-> << >>]

on_header(r, metadata) == [r EXCEPT !.header = TRUE, !.keys = metadata]

\* Mutant of on_record: the record is inserted at the front of the list.
on_record_Prepend(r, values) ==
    [r EXCEPT !.records =
        <<Record(r.keys, [i \in DOMAIN values |-> hydrated(values[i])])>> \o @]

on_record(r, values) ==
    [r EXCEPT !.records =
        Append(@, Record(r.keys, [i \in DOMAIN values |-> hydrated(values[i])]))]

on_footer(r, metadata) == r

\* ---------------------------------------------------------------- Session.run
Request(type, stmt, k, t) == [type |-> type, stmt |-> stmt, run |-> k, tx |-> t]

\* Mutant of QueuedRequests: the streaming request is queued before RUN.
QueuedRequests_PullFirst(stmt, k, t) ==
    << Request("PULL_ALL", stmt, k, t), Request("RUN", stmt, k, t) >>

\* Mutant of QueuedRequests: the streaming request is queued twice.
QueuedRequests_TwoPulls(stmt, k, t) ==
    << Request("RUN", stmt, k, t), Request("PULL_ALL", stmt, k, t),
       Request("PULL_ALL", stmt, k, t) >>

\* connection.append(RUN, ...) then connection.append(PULL_ALL, ...)
QueuedRequests(stmt, k, t) ==
    << Request("RUN", stmt, k, t), Request("PULL_ALL", stmt, k, t) >>

\* The Response objects in the order they are registered with the connection.
QueuedResponses(k) == << <<k, "run">>, <<k, "pull">> >>

\* Mutant of LoopDone: the loop waits for run_response instead.
LoopDone_RunResponse(r) == r.runComplete

\* "while not pull_all_response.complete"
LoopDone(r) == r.pullComplete

\* The Session.run invocations one behaviour may hold: the calls the retry
\* executor makes for its attempts are counted by a bound of their own.
RunLimit == IF exec.state = "none" THEN MaxRuns ELSE MaxExecRuns

\* Lines 157-170: build the Result and its Responses, queue RUN and PULL_ALL.
StartRun(stmt, op, t, w) ==
    LET k == Len(results) + 1 IN
    /\ Len(results) < RunLimit
    /\ results' = Append(results, NewResult(stmt, op, t))
    /\ responses' = responses \o QueuedResponses(k)
    /\ outbox' = outbox \o QueuedRequests(stmt, k, t)
    /\ pc' = "send"
    /\ ctx' = [op |-> op, tx |-> t, res |-> k, with |-> w]

\* The caller may start an API call: no call is running, the connection is
\* still held, and no exception is on its way out of a with-block.
Idle == pc = "idle" /\ ~released /\ ~scope.exc

\* An exception leaves an API call made by the caller: inside the body of a
\* with-block it leaves the body next, so that only __exit__ can follow.
Raised(op, t, err) ==
    /\ outcome' = [op |-> op, tx |-> t, err |-> err]
    /\ scope' = IF scope.tx # 0 THEN [scope EXCEPT !.exc = TRUE] ELSE scope

Pending(op, t) == [op |-> op, tx |-> t, err |-> "pending"]

\* Session.run called by the user.
SessionRun(stmt) ==
    /\ Idle
    /\ StartRun(stmt, "run", transaction, FALSE)
    /\ outcome' = Pending("run", transaction)
    /\ UNCHANGED <<transaction, txs, handles, wire, inbound, sent, server,
                   released, scope>>

\* connection.send(): everything queued goes out in one flush.
Send ==
    /\ pc = "send"
    /\ wire' = wire \o outbox
    /\ sent' = sent \o outbox
    /\ outbox' = << >>
    /\ pc' = "fetch"
    /\ UNCHANGED <<transaction, txs, handles, results, responses, inbound,
                   server, released, ctx, scope, outcome>>

\* --------------------------------------------------------------------- server
\* The server answers the requests in submission order.  RUN is answered by
\* SUCCESS with the field names or by FAILURE; PULL_ALL by the statement's
\* rows as RECORD messages and then SUCCESS, or by FAILURE; the PULL_ALL
\* pipelined behind a failed RUN is answered by IGNORED.  run is history:
\* the Session.run call whose request the message answers.
Message(req, sig, data) == [sig |-> sig, data |-> data, run |-> req.run]

MayFail == server.failures < MaxFailures

ServerRunSuccess ==
    /\ wire # << >> /\ Head(wire).type = "RUN"
    /\ inbound' = Append(inbound, Message(Head(wire), "SUCCESS",
                                           Fields(Head(wire).stmt)))
    /\ server' = [server EXCEPT !.stmt = Head(wire).stmt, !.pos = 0]
    /\ wire' = Tail(wire)
    /\ UNCHANGED <<transaction, txs, handles, results, responses, outbox,
                   sent, released, pc, ctx, scope, outcome>>

ServerRunFailure ==
    /\ wire # << >> /\ Head(wire).type = "RUN"
    /\ MayFail
    /\ inbound' = Append(inbound, Message(Head(wire), "FAILURE", << >>))
    /\ server' = [server EXCEPT !.ignore = TRUE, !.failures = @ + 1,
                                 !.failed = @ \cup {Head(wire).run}]
    /\ wire' = Tail(wire)
    /\ UNCHANGED <<transaction, txs, handles, results, responses, outbox,
                   sent, released, pc, ctx, scope, outcome>>

ServerRecord ==
    /\ wire # << >> /\ Head(wire).type = "PULL_ALL"
    /\ ~server.ignore
    /\ server.pos < Len(Stream(server.stmt))
    /\ inbound' = Append(inbound,
                         Message(Head(wire), "RECORD",
                                 Stream(server.stmt)[server.pos + 1]))
    /\ server' = [server EXCEPT !.pos = @ + 1]
    /\ UNCHANGED <<transaction, txs, handles, results, responses, outbox,
                   wire, sent, released, pc, ctx, scope, outcome>>

ServerPullSuccess ==
    /\ wire # << >> /\ Head(wire).type = "PULL_ALL"
    /\ ~server.ignore
    /\ server.pos = Len(Stream(server.stmt))
    /\ inbound' = Append(inbound, Message(Head(wire), "SUCCESS", << >>))
    /\ wire' = Tail(wire)
    /\ UNCHANGED <<transaction, txs, handles, results, responses, outbox,
                   sent, server, released, pc, ctx, scope, outcome>>

ServerPullFailure ==
    /\ wire # << >> /\ Head(wire).type = "PULL_ALL"
    /\ ~server.ignore
    /\ MayFail
    /\ inbound' = Append(inbound, Message(Head(wire), "FAILURE", << >>))
    /\ server' = [server EXCEPT !.failures = @ + 1,
                                 !.failed = @ \cup {Head(wire).run}]
    /\ wire' = Tail(wire)
    /\ UNCHANGED <<transaction, txs, handles, results, responses, outbox,
                   sent, released, pc, ctx, scope, outcome>>

ServerIgnored ==
    /\ wire # << >> /\ Head(wire).type = "PULL_ALL"
    /\ server.ignore
    /\ inbound' = Append(inbound, Message(Head(wire), "IGNORED", << >>))
    /\ server' = [server EXCEPT !.ignore = FALSE]
    /\ wire' = Tail(wire)
    /\ UNCHANGED <<transaction, txs, handles, results, responses, outbox,
                   sent, released, pc, ctx, scope, outcome>>

\* ----------------------------------------------------------------- fetch_next
\* Mutant of Handler: pull_all_response.on_record is left unbound, so the
\* handler Response provides drops the records.
Handler_RecordUnbound(kind, sig) ==
    CASE kind = "run" /\ sig = "SUCCESS" -> "on_header"
      [] kind = "run" /\ sig = "FAILURE" -> "on_failure"
      [] kind = "pull" /\ sig = "SUCCESS" -> "on_footer"
      [] kind = "pull" /\ sig = "FAILURE" -> "on_failure"
      [] OTHER -> "default"

\* Mutant of Handler: run_response.on_failure is left unbound, so a FAILURE
\* to RUN goes to the handler Response provides.
Handler_RunFailureUnbound(kind, sig) ==
    CASE kind = "run" /\ sig = "SUCCESS" -> "on_header"
      [] kind = "pull" /\ sig = "RECORD" -> "on_record"
      [] kind = "pull" /\ sig = "SUCCESS" -> "on_footer"
      [] kind = "pull" /\ sig = "FAILURE" -> "on_failure"
      [] OTHER -> "default"

\* Mutant of Handler: on_failure is bound to neither Response.
Handler_FailureUnbound(kind, sig) ==
    CASE kind = "run" /\ sig = "SUCCESS" -> "on_header"
      [] kind = "pull" /\ sig = "RECORD" -> "on_record"
      [] kind = "pull" /\ sig = "SUCCESS" -> "on_footer"
      [] OTHER -> "default"

\* Mutant of Handler: pull_all_response.on_failure is left unbound, so a
\* FAILURE to PULL_ALL goes to the handler Response provides.
Handler_PullFailureUnbound(kind, sig) ==
    CASE kind = "run" /\ sig = "SUCCESS" -> "on_header"
      [] kind = "run" /\ sig = "FAILURE" -> "on_failure"
      [] kind = "pull" /\ sig = "RECORD" -> "on_record"
      [] kind = "pull" /\ sig = "SUCCESS" -> "on_footer"
      [] OTHER -> "default"

\* Lines 160-167: the handler of the Result each Response attribute is bound
\* to; "default" is the handler Response itself provides, which does nothing.
Handler(kind, sig) ==
    CASE kind = "run" /\ sig = "SUCCESS" -> "on_header"
      [] kind = "run" /\ sig = "FAILURE" -> "on_failure"
      [] kind = "pull" /\ sig = "RECORD" -> "on_record"
      [] kind = "pull" /\ sig = "SUCCESS" -> "on_footer"
      [] kind = "pull" /\ sig = "FAILURE" -> "on_failure"
      [] OTHER -> "default"

Handled(r, kind, msg) ==
    CASE Handler(kind, msg.sig) = "on_header" -> on_header(r, msg.data)
      [] Handler(kind, msg.sig) = "on_record" -> on_record(r, msg.data)
      [] Handler(kind, msg.sig) = "on_footer" -> on_footer(r, msg.data)
      [] OTHER -> r

\* A summary message completes the Response at the head of the queue.
Completed(r, kind, msg) ==
    IF msg.sig \notin SUMMARY THEN r
    ELSE IF kind = "run" THEN [r EXCEPT !.runComplete = TRUE]
    ELSE [r EXCEPT !.pullComplete = TRUE]

\* connection.fetch_next(): one message goes to the Response at the head of
\* connection.responses; a summary message completes and removes it.
Fetched ==
    LET msg == Head(inbound)
        k == Head(responses)[1]
        kind == Head(responses)[2]
    IN /\ inbound' = Tail(inbound)
       /\ responses' = IF msg.sig \in SUMMARY THEN Tail(responses) ELSE responses
       /\ results' = [results EXCEPT
                        ![k] = Handled(Completed(@, kind, msg), kind, msg)]

CanFetch ==
    /\ pc = "fetch"
    /\ ~LoopDone(results[ctx.res])
    /\ inbound # << >>
    /\ responses # << >>

\* One turn of the loop of lines 176-177 whose handler returns.
FetchNext ==
    /\ CanFetch
    /\ Handler(Head(responses)[2], Head(inbound).sig) # "on_failure"
    /\ Fetched
    /\ UNCHANGED <<transaction, txs, handles, outbox, wire, sent, server,
                   released, pc, ctx, scope, outcome>>

\* One turn of the loop whose handler is Result.on_failure: CypherError
\* leaves Session.run and the method that called it.
FetchFailure ==
    /\ CanFetch
    /\ Handler(Head(responses)[2], Head(inbound).sig) = "on_failure"
    /\ Fetched
    /\ pc' = "idle"
    /\ ctx' = NoCtx
    /\ outcome' = [op |-> ctx.op, tx |-> ctx.tx, err |-> "CypherError"]
    /\ IF ctx.op = "exit"
       THEN /\ scope' = NoScope
            /\ txs' = [txs EXCEPT ![ctx.tx].exited = TRUE]
       ELSE /\ scope' = IF scope.tx # 0 THEN [scope EXCEPT !.exc = TRUE]
                                        ELSE scope
            /\ txs' = txs
    /\ UNCHANGED <<transaction, handles, outbox, wire, sent, server, released>>

\* ------------------------------------------------------- Session.run returns
\* Lines 179-182 for Session.run called by the user or by Transaction.run:
\* the Result is handed to the caller.
ReturnResult ==
    /\ pc = "fetch"
    /\ LoopDone(results[ctx.res])
    /\ ctx.op \in {"run", "txrun"}
    /\ results' = [results EXCEPT ![ctx.res].returned = TRUE]
    /\ pc' = "idle"
    /\ ctx' = NoCtx
    /\ outcome' = [op |-> ctx.op, tx |-> ctx.tx, err |-> "none"]
    /\ UNCHANGED <<transaction, txs, handles, responses, outbox, wire,
                   inbound, sent, server, released, scope>>

\* Session.run("BEGIN") returns to Transaction.__init__, which returns to
\* new_transaction: lines 195-196, and the with-block is entered.
ReturnBegin ==
    /\ pc = "fetch"
    /\ LoopDone(results[ctx.res])
    /\ ctx.op = "begin"
    /\ transaction' = ctx.tx
    /\ handles' = handles \cup {ctx.tx}
    /\ txs' = [txs EXCEPT ![ctx.tx].begun = TRUE, ![ctx.tx].scoped = ctx.with]
    /\ scope' = IF ctx.with THEN [tx |-> ctx.tx, exc |-> FALSE] ELSE scope
    /\ pc' = "idle"
    /\ ctx' = NoCtx
    /\ outcome' = [op |-> ctx.op, tx |-> ctx.tx, err |-> "none"]
    /\ UNCHANGED <<results, responses, outbox, wire, inbound, sent, server,
                   released>>

\* Mutant of SessionTransactionAfterClose: line 263 is missing.
SessionTransactionAfterClose_Kept(tr) == tr

\* "self.session.transaction = None"
SessionTransactionAfterClose(tr) == 0

\* Session.run("COMMIT" / "ROLLBACK") returns to Transaction.close:
\* lines 262-263.
ReturnClose ==
    /\ pc = "fetch"
    /\ LoopDone(results[ctx.res])
    /\ ctx.op \in {"commit", "rollback", "close", "exit"}
    /\ txs' = [txs EXCEPT ![ctx.tx].closed = TRUE,
                          ![ctx.tx].exited = (@ \/ ctx.op = "exit")]
    /\ transaction' = SessionTransactionAfterClose(transaction)
    /\ scope' = IF ctx.op = "exit" THEN NoScope ELSE scope
    /\ pc' = "idle"
    /\ ctx' = NoCtx
    /\ outcome' = [op |-> ctx.op, tx |-> ctx.tx, err |-> "none"]
    /\ UNCHANGED <<handles, results, responses, outbox, wire, inbound, sent,
                   server, released>>

\* ---------------------------------------------------- Session.new_transaction
\* A Transaction as the class attributes leave it (success, closed), with
\* history: begun (BEGIN answered, the object assigned and returned), scoped
\* (used as a with-block), exited (its __exit__ has run), commitReq (commit()
\* was called or success was set to True).
TransactionObject ==
    [success |-> FALSE, closed |-> FALSE, begun |-> FALSE, scoped |-> FALSE,
     exited |-> FALSE, commitReq |-> FALSE]

\* Mutant of MayBegin: the assertion is missing.
MayBegin_Unchecked(tr) == TRUE

\* "assert not self.transaction": a Transaction object is always true.
MayBegin(tr) == tr = 0

\* new_transaction; w says the returned Transaction is used as a with-block.
NewTransaction(w) ==
    /\ Idle
    /\ w => scope.tx = 0
    /\ IF MayBegin(transaction)
       THEN /\ Len(txs) < MaxTx
            /\ txs' = Append(txs, TransactionObject)
            /\ StartRun("BEGIN", "begin", Len(txs) + 1, w)
            /\ outcome' = Pending("begin", Len(txs) + 1)
            /\ UNCHANGED <<transaction, handles, wire, inbound, sent, server,
                           released, scope>>
       ELSE /\ Raised("begin", 0, "AssertionError")
            /\ UNCHANGED <<transaction, txs, handles, results, responses,
                           outbox, wire, inbound, sent, server, released, pc,
                           ctx>>

\* ---------------------------------------------------------------- Transaction
\* Mutant of NotClosed: the assertion is missing.
NotClosed_Unchecked(tx) == TRUE

\* "assert not self.closed"
NotClosed(tx) == ~tx.closed

\* Transaction.run
TxRun(t, stmt) ==
    /\ Idle
    /\ t \in handles
    /\ IF NotClosed(txs[t])
       THEN /\ StartRun(stmt, "txrun", t, FALSE)
            /\ outcome' = Pending("txrun", t)
            /\ UNCHANGED <<transaction, txs, handles, wire, inbound, sent,
                           server, released, scope>>
       ELSE /\ Raised("txrun", t, "AssertionError")
            /\ UNCHANGED <<transaction, txs, handles, results, responses,
                           outbox, wire, inbound, sent, server, released, pc,
                           ctx>>

\* Mutant of TerminalStatement: COMMIT and ROLLBACK change places.
TerminalStatement_Swapped(success) == IF success THEN "ROLLBACK" ELSE "COMMIT"

\* Mutant of TerminalStatement: close never rolls back.
TerminalStatement_AlwaysCommit(success) == "COMMIT"

\* Mutant of TerminalStatement: close never commits.
TerminalStatement_AlwaysRollback(success) == "ROLLBACK"

\* Lines 258-261: the statement Transaction.close runs.
TerminalStatement(success) == IF success THEN "COMMIT" ELSE "ROLLBACK"

\* Transaction.close up to its Session.run call, entered as op on
\* Transaction t with the Transaction objects as they are at that moment.
Close(op, t, objects) ==
    IF NotClosed(objects[t])
    THEN /\ StartRun(TerminalStatement(objects[t].success), op, t, FALSE)
         /\ txs' = objects
         /\ outcome' = Pending(op, t)
         /\ UNCHANGED <<transaction, handles, wire, inbound, sent, server,
                        released, scope>>
    ELSE /\ outcome' = [op |-> op, tx |-> t, err |-> "AssertionError"]
         /\ IF op = "exit"
            THEN /\ scope' = NoScope
                 /\ txs' = [objects EXCEPT ![t].exited = TRUE]
            ELSE /\ scope' = IF scope.tx # 0 THEN [scope EXCEPT !.exc = TRUE]
                                             ELSE scope
                 /\ txs' = objects
         /\ UNCHANGED <<transaction, handles, results, responses, outbox,
                        wire, inbound, sent, server, released, pc, ctx>>

\* Transaction.commit
TxCommit(t) ==
    /\ Idle
    /\ t \in handles
    /\ Close("commit", t,
             [txs EXCEPT ![t].success = TRUE, ![t].commitReq = TRUE])

\* Transaction.rollback
TxRollback(t) ==
    /\ Idle
    /\ t \in handles
    /\ Close("rollback", t, [txs EXCEPT ![t].success = FALSE])

\* Transaction.close called by the user.
TxClose(t) ==
    /\ Idle
    /\ t \in handles
    /\ Close("close", t, txs)

\* Transaction.__exit__: the with-block is left, by reaching its end, by an
\* early return or by an exception raised in its body.
TxExit ==
    /\ pc = "idle"
    /\ ~released
    /\ scope.tx # 0
    /\ Close("exit", scope.tx, txs)

\* The user assigns Transaction.success.
SetSuccess(t, b) ==
    /\ Idle
    /\ t \in handles
    /\ txs[t].success # b
    /\ txs' = [txs EXCEPT ![t].success = b, ![t].commitReq = (@ \/ b)]
    /\ UNCHANGED <<transaction, handles, results, responses, outbox, wire,
                   inbound, sent, server, released, pc, ctx, scope, outcome>>

\* ------------------------------------------------------------- Session.close
\* Session.close: connection.close() and nothing else.  The Session is not
\* used after it, and it is closed outside any Transaction with-block.
Closing(op) ==
    /\ Idle
    /\ scope.tx = 0
    /\ released' = TRUE
    /\ outcome' = [op |-> op, tx |-> transaction, err |-> "none"]
    /\ UNCHANGED <<transaction, txs, handles, results, responses, outbox,
                   wire, inbound, sent, server, pc, ctx, scope>>

SessionClose ==
    /\ ~released
    /\ Closing("session_close")

\* Session.__exit__
SessionExit ==
    /\ ~released
    /\ Closing("session_exit")

\* ------------------------------------------------------------ reading a Result
\* The caller takes the next record of a Result it was handed (a Result is
\* a list: iteration goes by position).
Read(k) ==
    /\ pc = "idle"
    /\ ~scope.exc
    /\ k \in DOMAIN results
    /\ results[k].returned
    /\ Len(results[k].got) < Len(results[k].records)
    /\ results' = [results EXCEPT
                     ![k].got = Append(@, results[k].records[Len(@) + 1])]
    /\ UNCHANGED <<transaction, txs, handles, responses, outbox, wire,
                   inbound, sent, server, released, pc, ctx, scope, outcome>>

\* --------------------------------------------------------------------- Record
MaxFields == 2      \* fields of the Record that is looked up

FieldNames == {"x", "y"}
FieldValues == {1, 2}

\* Names the ordinary attribute lookup finds on a Record object: the two
\* attributes Record.__init__ sets and a method of the class.
ObjectAttributes == {"__keys__", "__values__", "__len__"}

\* The names a lookup is made with: field names, names of attributes of the
\* object, and a name that is neither.
LookupNames == FieldNames \cup ObjectAttributes \cup {"z"}

\* How a lookup ends: with a value of the record, with an attribute of the
\* object, or with an exception.
ReturnedValue(v) == [err |-> "none", value |-> v, attribute |-> "none"]
ReturnedAttribute(name) == [err |-> "none", value |-> 0, attribute |-> name]
LookupRaised(err) == [err |-> err, value |-> 0, attribute |-> "none"]

\* list.index: the first position that holds item, 0 for ValueError.
Index(keys, item) ==
    IF \E i \in DOMAIN keys : keys[i] = item
    THEN CHOOSE i \in DOMAIN keys :
            keys[i] = item /\ \A j \in 1..(i - 1) : keys[j] # item
    ELSE 0

\* Record.__getattr__
Record_getattr(r, item) ==
    IF Index(r.keys, item) = 0 THEN LookupRaised("AttributeError")
    ELSE ReturnedValue(r.values[Index(r.keys, item)])

\* getattr(record, name): __getattr__ is called only when the ordinary
\* attribute lookup finds nothing.
GetAttr(r, name) ==
    IF name \in ObjectAttributes THEN ReturnedAttribute(name)
    ELSE Record_getattr(r, name)

\* An item as Record.__getitem__ tells them apart: a string, an integer
\* (a Python position, counted from 0, from the end when negative) or
\* anything else.
StringItem(name) == [type |-> "string", name |-> name, position |-> 0]
IntegerItem(p) == [type |-> "integer", name |-> "", position |-> p]
OtherItem == [type |-> "other", name |-> "", position |-> 0]

\* Record.__getitem__
Record_getitem(r, item) ==
    CASE item.type = "string" -> GetAttr(r, item.name)
      [] item.type = "integer" ->
           LET n == Len(r.keys)
               p == item.position
           IN IF p >= 0 /\ p < n THEN GetAttr(r, r.keys[p + 1])
              ELSE IF p < 0 /\ p >= -n THEN GetAttr(r, r.keys[n + p + 1])
              ELSE LookupRaised("IndexError")
      [] OTHER -> LookupRaised("TypeError")

\* record[item]
GetItem(item) ==
    /\ lookup' = [made |-> TRUE, record |-> lookup.record, item |-> item,
                  result |-> Record_getitem(lookup.record, item)]
    /\ UNCHANGED <<session, driver, sessions, network, exec>>

\* record.<name>
GetAttribute(name) ==
    /\ lookup' = [made |-> TRUE, record |-> lookup.record,
                  item |-> StringItem(name),
                  result |-> GetAttr(lookup.record, name)]
    /\ UNCHANGED <<session, driver, sessions, network, exec>>

\* ------------------------------------------------------------- specification
\* The operations on a Session leave everything outside the Session alone.
Apart == UNCHANGED <<lookup, driver, sessions, network, exec>>

Next ==
    \/ (\E stmt \in UserStatements : SessionRun(stmt)) /\ Apart
    \/ (\E w \in BOOLEAN : NewTransaction(w)) /\ Apart
    \/ (\E t \in 1..MaxTx, stmt \in UserStatements : TxRun(t, stmt)) /\ Apart
    \/ (\E t \in 1..MaxTx : TxCommit(t)) /\ Apart
    \/ (\E t \in 1..MaxTx : TxRollback(t)) /\ Apart
    \/ (\E t \in 1..MaxTx : TxClose(t)) /\ Apart
    \/ (\E t \in 1..MaxTx, b \in BOOLEAN : SetSuccess(t, b)) /\ Apart
    \/ TxExit /\ Apart
    \/ SessionClose /\ Apart
    \/ SessionExit /\ Apart
    \/ (\E k \in 1..MaxRuns : Read(k)) /\ Apart
    \/ Send /\ Apart
    \/ FetchNext /\ Apart
    \/ FetchFailure /\ Apart
    \/ ReturnResult /\ Apart
    \/ ReturnBegin /\ Apart
    \/ ReturnClose /\ Apart
    \/ ServerRunSuccess /\ Apart
    \/ ServerRunFailure /\ Apart
    \/ ServerRecord /\ Apart
    \/ ServerPullSuccess /\ Apart
    \/ ServerPullFailure /\ Apart
    \/ ServerIgnored /\ Apart

Spec == Init /\ [][Next]_vars

\* A call that is inside Session.run goes on (the caller is one thread, and
\* send and fetch_next block until they are done), and the server goes on
\* answering the requests it has received.
CallerStep ==
    (Send \/ FetchNext \/ FetchFailure \/ ReturnResult \/ ReturnBegin
        \/ ReturnClose) /\ Apart

ServerStep ==
    (ServerRunSuccess \/ ServerRunFailure \/ ServerRecord \/ ServerPullSuccess
        \/ ServerPullFailure \/ ServerIgnored) /\ Apart

\* The calls of the API with the steps of the caller and of the server.  What
\* the caller does between two calls with the objects it holds, reading a
\* Result and assigning Transaction.success, sends and fetches nothing and
\* is left out.
LiveNext ==
    \/ (\E stmt \in UserStatements : SessionRun(stmt)) /\ Apart
    \/ (\E w \in BOOLEAN : NewTransaction(w)) /\ Apart
    \/ (\E t \in 1..MaxTx, stmt \in UserStatements : TxRun(t, stmt)) /\ Apart
    \/ (\E t \in 1..MaxTx : TxCommit(t)) /\ Apart
    \/ (\E t \in 1..MaxTx : TxRollback(t)) /\ Apart
    \/ (\E t \in 1..MaxTx : TxClose(t)) /\ Apart
    \/ TxExit /\ Apart
    \/ SessionClose /\ Apart
    \/ SessionExit /\ Apart
    \/ Send /\ Apart
    \/ FetchNext /\ Apart
    \/ FetchFailure /\ Apart
    \/ ReturnResult /\ Apart
    \/ ReturnBegin /\ Apart
    \/ ReturnClose /\ Apart
    \/ ServerRunSuccess /\ Apart
    \/ ServerRunFailure /\ Apart
    \/ ServerRecord /\ Apart
    \/ ServerPullSuccess /\ Apart
    \/ ServerPullFailure /\ Apart
    \/ ServerIgnored /\ Apart

LiveSpec ==
    Init /\ [][LiveNext]_vars /\ WF_vars(CallerStep) /\ WF_vars(ServerStep)

\* Lookups on one Record of a Result: the Record is the one Result.on_record
\* builds from the keys Result.on_header stored and one row of values.
Rows(n) == [1..n -> FieldValues]
Headers(n) == [1..n -> FieldNames]

RecordInit ==
    /\ SessionInit
    /\ exec = NoExec
    /\ Connected(<<"bolt", "localhost", 7687>>, 0)
    /\ \E n \in 0..MaxFields : \E keys \in Headers(n), values \in Rows(n) :
         lookup = [made |-> FALSE,
                   record |-> on_record(on_header(NewResult("A", "run", 0),
                                                  keys), values).records[1]]

RecordNext ==
    \/ \E name \in LookupNames : GetItem(StringItem(name))
    \/ \E p \in (0 - MaxFields - 1)..MaxFields : GetItem(IntegerItem(p))
    \/ GetItem(OtherItem)
    \/ \E name \in LookupNames : GetAttribute(name)

RecordSpec == RecordInit /\ [][RecordNext]_vars

\* GraphDatabase.driver / Driver.__init__
NewDriver(url, config) ==
    /\ driver.state = "none"
    /\ driver' = Driver(url, config)
    /\ UNCHANGED <<session, lookup, sessions, network, exec>>

\* Driver.session
DriverSession(config) ==
    /\ driver.state = "built"
    /\ Len(sessions) < MaxSessions
    /\ Len(network) < MaxEvents
    /\ network' = Append(network,
                         Event("connect", connect(network), 0, driver.host,
                               driver.port, config))
    /\ sessions' = Append(sessions, NewSession(connect(network)))
    /\ UNCHANGED <<session, lookup, driver, exec>>

\* A Session sends or fetches: self.connection.send(),
\* self.connection.fetch_next().
SessionIO(s, op) ==
    /\ s \in DOMAIN sessions
    /\ Len(network) < MaxEvents
    /\ network' = Append(network,
                         Event(op, sessions[s].connection, s, "", 0, 0))
    /\ UNCHANGED <<session, lookup, driver, sessions, exec>>

DriverInit ==
    /\ SessionInit
    /\ lookup = NoLookup
    /\ driver = NoDriver
    /\ exec = NoExec
    /\ sessions = << >>
    /\ network = << >>

DriverNext ==
    \/ \E url \in URLs, config \in FetchSizes : NewDriver(url, config)
    \/ \E config \in FetchSizes : DriverSession(config)
    \/ \E s \in 1..MaxSessions : SessionIO(s, "send")
    \/ \E s \in 1..MaxSessions : SessionIO(s, "fetch")

DriverSpec == DriverInit /\ [][DriverNext]_vars

\* Session.run of "UNWIND [1,2,3,4] AS x RETURN x" on a Session obtained with
\* driver.session(fetch_size=...), outside any Transaction.
PullInit ==
    /\ SessionInit
    /\ exec = NoExec
    /\ lookup = NoLookup
    /\ \E config \in FetchSizes :
          Connected(<<"bolt", "localhost", 7687>>, config)

PullNext ==
    \/ SessionRun("UNWIND") /\ Apart
    \/ (\E k \in 1..MaxRuns : Read(k)) /\ Apart
    \/ Send /\ Apart
    \/ FetchNext /\ Apart
    \/ FetchFailure /\ Apart
    \/ ReturnResult /\ Apart
    \/ ServerRunSuccess /\ Apart
    \/ ServerRunFailure /\ Apart
    \/ ServerRecord /\ Apart
    \/ ServerPullSuccess /\ Apart
    \/ ServerPullFailure /\ Apart
    \/ ServerIgnored /\ Apart

PullSpec == PullInit /\ [][PullNext]_vars

\* ------------------------------------------------------------- retry executor
\* execute(work): every attempt opens a Transaction with new_transaction,
\* invokes work on it and commits when work returns; when a step of the
\* attempt raises, the Transaction is rolled back if it is not closed, and
\* the attempt is repeated when the error is classified transient, else the
\* error is raised to the caller.  work runs statement "A" with
\* Transaction.run and returns the records; it may also raise on its own.
Kinds == {"transient", "client"}

Error(kind, from) ==
    [kind |-> kind, from |-> from, attempt |-> Len(exec.attempts)]

\* The attempt that is running.
Attempt == exec.attempts[Len(exec.attempts)]

Others == UNCHANGED <<lookup, driver, sessions, network>>

\* The API call the executor made last has ended.
Ended(op) == outcome.op = op /\ outcome.err # "pending"

\* After the error of the running attempt has been handled: retry or raise.
AfterFailure(error) ==
    IF error.kind = "transient"
    THEN [exec EXCEPT !.state = "retry"]
    ELSE [exec EXCEPT !.state = "raised", !.error = error]

\* An attempt begins: a fresh Transaction is opened.
ExecBegin ==
    /\ exec.state \in {"ready", "retry"}
    /\ NewTransaction(FALSE)
    /\ exec' = [exec EXCEPT
                  !.state = "begin",
                  !.attempts = Append(@, [tx |-> 0, error |-> NoError,
                                          value |-> << >>])]
    /\ Others

\* new_transaction raised: there is no Transaction to roll back.
BeginFailed(kind) ==
    /\ exec.state = "begin"
    /\ Ended("begin")
    /\ outcome.err # "none"
    /\ outcome.err = "AssertionError" => kind = "client"
    /\ exec' = [AfterFailure(Error(kind, "begin")) EXCEPT
                  !.attempts[Len(exec.attempts)].error = Error(kind, "begin")]
    /\ UNCHANGED session
    /\ Others

\* new_transaction returned: work is invoked with the Transaction and calls
\* Transaction.run.
WorkInvoked ==
    /\ exec.state = "begin"
    /\ Ended("begin")
    /\ outcome.err = "none"
    /\ TxRun(outcome.tx, "A")
    /\ exec' = [exec EXCEPT !.state = "work", !.invoked = @ + 1,
                            !.attempts[Len(exec.attempts)].tx = outcome.tx]
    /\ Others

\* work returns the records of its Result: the executor commits.
WorkReturns ==
    /\ exec.state = "work"
    /\ Ended("txrun")
    /\ outcome.err = "none"
    /\ TxCommit(Attempt.tx)
    /\ exec' = [exec EXCEPT
                  !.state = "commit",
                  !.attempts[Len(exec.attempts)].value =
                      results[Len(results)].records]
    /\ Others

\* An error leaves work, the CypherError of Transaction.run or one that
\* work raises itself: the executor rolls the open Transaction back.
WorkRaises(kind) ==
    /\ exec.state = "work"
    /\ Ended("txrun")
    /\ TxRollback(Attempt.tx)
    /\ exec' = [exec EXCEPT
                  !.state = "rollback",
                  !.attempts[Len(exec.attempts)].error =
                      Error(kind, IF outcome.err = "none" THEN "work"
                                                          ELSE "run")]
    /\ Others

\* commit returned: execute returns what work returned.
ExecReturns ==
    /\ exec.state = "commit"
    /\ Ended("commit")
    /\ outcome.err = "none"
    /\ exec' = [exec EXCEPT !.state = "returned", !.result = Attempt.value]
    /\ UNCHANGED session
    /\ Others

\* commit raised: the Transaction is not closed and is rolled back.
CommitFailed(kind) ==
    /\ exec.state = "commit"
    /\ Ended("commit")
    /\ outcome.err # "none"
    /\ TxRollback(Attempt.tx)
    /\ exec' = [exec EXCEPT
                  !.state = "rollback",
                  !.attempts[Len(exec.attempts)].error = Error(kind, "commit")]
    /\ Others

\* The rollback has ended, whichever way: retry or raise the attempt's error.
RollbackEnded ==
    /\ exec.state = "rollback"
    /\ Ended("rollback")
    /\ exec' = AfterFailure(Attempt.error)
    /\ UNCHANGED session
    /\ Others

RetryInit ==
    /\ SessionInit
    /\ lookup = NoLookup
    /\ Connected(<<"bolt", "localhost", 7687>>, 0)
    /\ exec = [NoExec EXCEPT !.state = "ready"]

RetryNext ==
    \/ ExecBegin
    \/ \E kind \in Kinds : BeginFailed(kind)
    \/ WorkInvoked
    \/ WorkReturns
    \/ \E kind \in Kinds : WorkRaises(kind)
    \/ ExecReturns
    \/ \E kind \in Kinds : CommitFailed(kind)
    \/ RollbackEnded
    \/ Send /\ Apart
    \/ FetchNext /\ Apart
    \/ FetchFailure /\ Apart
    \/ ReturnResult /\ Apart
    \/ ReturnBegin /\ Apart
    \/ ReturnClose /\ Apart
    \/ ServerRunSuccess /\ Apart
    \/ ServerRunFailure /\ Apart
    \/ ServerRecord /\ Apart
    \/ ServerPullSuccess /\ Apart
    \/ ServerPullFailure /\ Apart
    \/ ServerIgnored /\ Apart

RetrySpec == RetryInit /\ [][RetryNext]_vars

\* ===================================================================== claims
\* The Transactions that are open: constructed with BEGIN answered, handed to
\* the caller, and not closed.
OpenTransactions == {t \in DOMAIN txs : txs[t].begun /\ ~txs[t].closed}

\* The terminal requests (RUN COMMIT / RUN ROLLBACK) sent for Transaction t.
TerminalSent(t) ==
    {i \in DOMAIN sent : /\ sent[i].type = "RUN"
                         /\ sent[i].stmt \in {"COMMIT", "ROLLBACK"}
                         /\ sent[i].tx = t}

BeginSent == {i \in DOMAIN sent : sent[i].type = "RUN" /\ sent[i].stmt = "BEGIN"}

\* No request is queued or sent and no call is left running by the step.
NothingQueued ==
    /\ outbox' = outbox
    /\ sent' = sent
    /\ wire' = wire
    /\ pc' = "idle"

\* C1: a Session never has more than one open Transaction, and
\* new_transaction called while session.transaction is an open Transaction
\* ends in AssertionError, queues and sends nothing (no BEGIN) and leaves
\* session.transaction as it was.
C1_OneOpenTransaction ==
    /\ [](Cardinality(OpenTransactions) <= 1)
    /\ [][((\E w \in BOOLEAN : NewTransaction(w))
            /\ transaction \in OpenTransactions)
          => (/\ outcome'.op = "begin"
              /\ outcome'.err = "AssertionError"
              /\ NothingQueued
              /\ transaction' = transaction
              /\ txs' = txs)]_vars

\* C1 witness: new_transaction was rejected while a Transaction is open and
\* exactly one BEGIN has ever been sent.
C1_Witness ==
    /\ outcome.op = "begin"
    /\ outcome.err = "AssertionError"
    /\ transaction \in OpenTransactions
    /\ Cardinality(BeginSent) = 1

\* C2: at the moment the with-block over a Transaction is left, on whatever
\* path, exactly one COMMIT or ROLLBACK has been sent for that Transaction,
\* and it is a COMMIT only if commit was requested (commit() called or
\* success set to True).
C2_ExactlyOneTerminal ==
    [][\A t \in DOMAIN txs :
          (txs[t].scoped /\ ~txs[t].exited /\ txs'[t].exited) =>
              /\ Cardinality(TerminalSent(t)') = 1
              /\ \A i \in TerminalSent(t)' :
                     sent'[i].stmt = "COMMIT" => txs'[t].commitReq]_vars

\* C3: the step in which Session.close (or Session.__exit__) releases the
\* connection sends a ROLLBACK, and no COMMIT, for the Transaction that is
\* open at that moment.
C3_CloseRollsBack ==
    [][(~released /\ released' /\ transaction \in OpenTransactions) =>
          /\ \E i \in DOMAIN sent' \ DOMAIN sent :
                 /\ sent'[i].type = "RUN"
                 /\ sent'[i].stmt = "ROLLBACK"
                 /\ sent'[i].tx = transaction
          /\ \A i \in DOMAIN sent' \ DOMAIN sent :
                 sent'[i].stmt # "COMMIT"]_vars

\* C4: Session.run called by the user while a Transaction is open ends in
\* AssertionError and queues and sends nothing.
C4_RunRejectedInTransaction ==
    [][((\E stmt \in UserStatements : SessionRun(stmt))
          /\ transaction \in OpenTransactions)
        => (outcome'.err = "AssertionError" /\ NothingQueued)]_vars

\* The step queues exactly RUN stmt followed by PULL_ALL.
Queues(stmt) ==
    /\ Len(outbox') = Len(outbox) + 2
    /\ SubSeq(outbox', 1, Len(outbox)) = outbox
    /\ outbox'[Len(outbox) + 1].type = "RUN"
    /\ outbox'[Len(outbox) + 1].stmt = stmt
    /\ outbox'[Len(outbox) + 2].type = "PULL_ALL"

\* A call on Transaction t that runs Transaction.close.
ClosingCall(t) ==
    \/ TxCommit(t)
    \/ TxRollback(t)
    \/ TxClose(t)
    \/ (scope.tx = t /\ TxExit)

\* C5: a closed Transaction stays closed, and every run, commit, rollback,
\* close or __exit__ on it ends in AssertionError and queues and sends
\* nothing; on an open Transaction run queues what Session.run queues for
\* the same statement, RUN statement then PULL_ALL.
C5_ClosedTransactionInert ==
    [][\A t \in handles :
          /\ txs[t].closed =>
                /\ txs'[t].closed
                /\ (ClosingCall(t) \/ \E stmt \in UserStatements : TxRun(t, stmt))
                      => (/\ outcome'.tx = t
                          /\ outcome'.err = "AssertionError"
                          /\ NothingQueued)
          /\ ~txs[t].closed =>
                \A stmt \in UserStatements :
                    TxRun(t, stmt) => (Queues(stmt) /\ ctx'.op = "txrun")]_vars

\* C5 witness: commit() has just been rejected on a Transaction that an
\* earlier rollback closed, with nothing sent after that ROLLBACK.
C5_Witness ==
    /\ outcome.op = "commit"
    /\ outcome.err = "AssertionError"
    /\ outcome.tx \in handles
    /\ txs[outcome.tx].closed
    /\ \A i \in TerminalSent(outcome.tx) : sent[i].stmt = "ROLLBACK"
    /\ sent # << >>
    /\ sent[Len(sent)].stmt = "ROLLBACK"

\* C6: on an open Transaction, close and __exit__ queue COMMIT when success
\* is True at that moment and ROLLBACK when it is False, whatever it was
\* before; commit() queues COMMIT and rollback() queues ROLLBACK whatever
\* success was.
C6_TerminalBySuccess ==
    [][\A t \in handles :
          ~txs[t].closed =>
              /\ (TxClose(t) \/ (scope.tx = t /\ TxExit)) =>
                    Queues(IF txs[t].success THEN "COMMIT" ELSE "ROLLBACK")
              /\ TxCommit(t) => Queues("COMMIT")
              /\ TxRollback(t) => Queues("ROLLBACK")]_vars

\* C6 witness: close() sent ROLLBACK for a Transaction whose success had
\* been set to True and then back to False; no COMMIT was sent for it.
C6_Witness ==
    /\ outcome.op = "close"
    /\ outcome.tx \in handles
    /\ txs[outcome.tx].commitReq
    /\ ~txs[outcome.tx].success
    /\ Cardinality(TerminalSent(outcome.tx)) = 1
    /\ \A i \in TerminalSent(outcome.tx) : sent[i].stmt = "ROLLBACK"

\* C7: when commit() or rollback() has returned, session.transaction is
\* None and the Transaction is closed, and new_transaction called next is not
\* rejected: it constructs a Transaction and queues BEGIN.
C7_IdleAfterCommit ==
    /\ []((outcome.op \in {"commit", "rollback"} /\ outcome.err = "none") =>
            (transaction = 0 /\ txs[outcome.tx].closed /\ pc = "idle"))
    /\ [][(/\ outcome.op \in {"commit", "rollback"}
           /\ outcome.err = "none"
           /\ \E w \in BOOLEAN : NewTransaction(w))
          => (/\ Queues("BEGIN")
              /\ outcome'.err = "pending"
              /\ Len(txs') = Len(txs) + 1)]_vars

\* C7 witness: after commit() of the first Transaction returned, a second
\* new_transaction has returned a second, open Transaction.
C7_Witness ==
    /\ Len(txs) = 2
    /\ txs[1].closed
    /\ \A i \in TerminalSent(1) : sent[i].stmt = "COMMIT"
    /\ Cardinality(BeginSent) = 2
    /\ transaction = 2
    /\ outcome.op = "begin"
    /\ outcome.err = "none"

\* The Result a statement must produce: every row the server streams for it,
\* once, in server order, under the field names of its RUN header.
Expected(stmt) ==
    [i \in 1..Len(Stream(stmt)) |-> Record(Fields(stmt), Stream(stmt)[i])]

IsPrefix(s, t) == Len(s) <= Len(t) /\ s = SubSeq(t, 1, Len(s))

\* Result k is complete: both responses are complete and it holds exactly
\* the expected records.
Complete(k) ==
    /\ results[k].runComplete
    /\ results[k].pullComplete
    /\ results[k].keys = Fields(results[k].stmt)
    /\ results[k].records = Expected(results[k].stmt)

\* Request RUN of run k has been sent.
RunSent(k) == \E i \in DOMAIN sent : sent[i].type = "RUN" /\ sent[i].run = k

\* C8: whenever the RUN of a later statement has been sent, every Result
\* handed to the caller before it is complete, with every row of its own
\* statement once and in order, read or not; and every Result handed to the
\* caller (the second one too) holds exactly its own statement's records.
C8_EarlierResultComplete ==
    /\ \A j \in DOMAIN results, k \in DOMAIN results :
          (j < k /\ results[j].returned /\ RunSent(k)) => Complete(j)
    /\ \A k \in DOMAIN results : results[k].returned => Complete(k)

\* C8 witness: outside any Transaction, B was run and returned while the
\* Result of A, run before it, is still unread.
C8_Witness ==
    /\ Len(results) >= 2
    /\ results[1].stmt = "A" /\ results[1].tx = 0
    /\ results[2].stmt = "B" /\ results[2].tx = 0
    /\ results[1].returned
    /\ results[1].got = << >>
    /\ RunSent(2)
    /\ results[2].returned
    /\ Len(results[2].records) = 2

\* C9: what the caller has read from a Result so far is always the first
\* records of that Result's own statement, in the statement's order,
\* whatever has been read from other Results in between.
C9_ReadsOwnRecordsInOrder ==
    \A k \in DOMAIN results :
        IsPrefix(results[k].got, Expected(results[k].stmt))

\* C9 witness: A and B were run in the same Transaction before either was
\* read; all of B has been read while A is only partly read.
C9_Witness ==
    \E j \in DOMAIN results, k \in DOMAIN results :
        /\ j < k
        /\ results[j].stmt = "A" /\ results[k].stmt = "B"
        /\ results[j].op = "txrun" /\ results[k].op = "txrun"
        /\ results[j].tx = results[k].tx
        /\ results[k].got = Expected("B")
        /\ Len(results[j].got) = 1

\* The requests the step sends.
NewlySent == DOMAIN sent' \ DOMAIN sent

IsTerminal(req) == req.type = "RUN" /\ req.stmt \in {"COMMIT", "ROLLBACK"}

\* Result k was handed to the caller by Transaction.run of Transaction t.
ResultOf(k, t) ==
    results[k].returned /\ results[k].op = "txrun" /\ results[k].tx = t

\* Once the Transaction of a Result is closed, no step hands the caller a
\* further record of that Result.
NoRecordsAfterClose ==
    \A k \in DOMAIN results, t \in DOMAIN txs :
        (ResultOf(k, t) /\ txs[t].closed) => results'[k].got = results[k].got

\* A COMMIT or ROLLBACK is sent only when the streaming (PULL_ALL) response
\* of every earlier statement of its Transaction that has one, its RUN having
\* been answered with SUCCESS, is complete.
TerminalAfterStreams ==
    \A i \in NewlySent :
        IsTerminal(sent'[i]) =>
            \A k \in DOMAIN results :
                (/\ k < sent'[i].run
                 /\ results[k].tx = sent'[i].tx
                 /\ results[k].header) => results[k].pullComplete

CloseKeepsResults ==
    \A k \in DOMAIN results, t \in DOMAIN txs :
        (ResultOf(k, t) /\ ~txs[t].closed /\ txs'[t].closed) =>
            results'[k] = results[k]

UnreadFailures == {i \in DOMAIN inbound : inbound[i].sig = "FAILURE"}

\* The step takes a FAILURE message off the connection.
FailureFetched ==
    /\ inbound # << >>
    /\ Head(inbound).sig = "FAILURE"
    /\ inbound' = Tail(inbound)

\* C11: every FAILURE the server sends is raised as CypherError from the
\* call that sent the failed request, once: while it is unread that call is
\* still running; the step that fetches it hands it to a Response of that
\* call and ends that call, and the method that made it, with CypherError;
\* the Result of a call answered with FAILURE is never returned and the
\* call has ended once the FAILURE is read.
C11_FailureRaisedInItsCall ==
    /\ [](\A i \in UnreadFailures : pc # "idle" /\ ctx.res = inbound[i].run)
    /\ [][FailureFetched
          => (/\ responses # << >>
              /\ Head(responses)[1] = Head(inbound).run
              /\ ctx.res = Head(inbound).run
              /\ pc' = "idle"
              /\ outcome' = [op |-> ctx.op, tx |-> ctx.tx,
                             err |-> "CypherError"])]_vars
    /\ [](\A k \in server.failed :
            /\ ~results[k].returned
            /\ (\E i \in UnreadFailures : inbound[i].run = k) \/ ctx.res # k)

\* A FAILURE to PULL_ALL was fetched in Transaction.run and left it as
\* CypherError, and another call was made after it.
C11_Witness ==
    /\ \E k \in server.failed :
          /\ results[k].op = "txrun"
          /\ results[k].header
          /\ results[k].pullComplete
          /\ ~results[k].returned
          /\ k < Len(results)
    /\ UnreadFailures = {}

\* C12: when a call sends its requests, nothing of an earlier call is left
\* on the connection: every earlier request has been answered, every
\* response has been fetched, and the pending Responses are the call's own.
C12_CleanBeforeReuse ==
    [][sent' # sent
       => (/\ wire = << >>
           /\ inbound = << >>
           /\ \A i \in DOMAIN responses : responses[i][1] = ctx.res)]_vars

\* The positions of a Record, counted from 0 as Python does.
Positions(r) == 0..(Len(r.keys) - 1)

\* Lookup by position, by the name at that position and by attribute agree.
LookupsAgree(r) ==
    \A p \in Positions(r) :
        /\ Record_getitem(r, IntegerItem(p))
             = Record_getitem(r, StringItem(r.keys[p + 1]))
        /\ Record_getitem(r, IntegerItem(p)) = GetAttr(r, r.keys[p + 1])

\* C13: on every Record, lookup by position i, by the name keys[i] and by
\* the attribute keys[i] give the same, and a lookup by a name that is not
\* one of the Record's field names ends in an error, never in a value.
C13_LookupByPositionAndName ==
    /\ LookupsAgree(lookup.record)
    /\ (/\ lookup.made
        /\ lookup.item.type = "string"
        /\ \A i \in DOMAIN lookup.record.keys :
              lookup.record.keys[i] # lookup.item.name)
       => lookup.result.err # "none"

OperationsOn(c) ==
    {i \in DOMAIN network :
        network[i].op \in {"send", "fetch"} /\ network[i].connection = c}

\* C15: every Session Driver.session returned has a connection of its own,
\* opened by that call: no two Sessions share a connection, every connection
\* opened belongs to one Session, and every send and fetch on a connection
\* is made by the Session that owns it.
C15_OneSessionPerConnection ==
    /\ \A s1, s2 \in DOMAIN sessions :
          s1 # s2 => sessions[s1].connection # sessions[s2].connection
    /\ Cardinality({i \in DOMAIN network : network[i].op = "connect"})
          = Len(sessions)
    /\ \A s \in DOMAIN sessions :
          \E i \in DOMAIN network : /\ network[i].op = "connect"
                                    /\ network[i].connection
                                          = sessions[s].connection
    /\ \A s \in DOMAIN sessions :
          \A i \in OperationsOn(sessions[s].connection) :
              network[i].session = s

\* Two Sessions have sent and fetched in turn on their connections.
C15_Witness ==
    /\ Len(sessions) = 2
    /\ \E i, j \in DOMAIN network :
          /\ i < j
          /\ network[i].op = "send" /\ network[i].session = 2
          /\ network[j].op = "fetch" /\ network[j].session = 1

\* The fetch size the Session was obtained with (0: none configured).
FetchSize == network[1].config

\* The streaming requests sent for run k.
PullsSent(k) ==
    {i \in DOMAIN sent : sent[i].type = "PULL_ALL" /\ sent[i].run = k}

\* C16 as stated: with fetch size 2 the four records of the statement come
\* in order through exactly two PULL requests, and with any fetch size n no
\* PULL request brings more than n records.
C16_RecordsInBatches ==
    \A k \in DOMAIN results :
        (results[k].returned /\ FetchSize > 0)
        => (/\ results[k].records = Expected(results[k].stmt)
            /\ Len(results[k].records) <= FetchSize * Cardinality(PullsSent(k))
            /\ FetchSize = 2 => Cardinality(PullsSent(k)) = 2)

\* C16, amended: whatever fetch size the Session was obtained with, every
\* Session.run sends one PULL_ALL, directly behind its RUN, and the Result it
\* returns holds all records of the statement in server order; the caller
\* reads them in that order.
C16_RecordsInOrderByOnePullAll ==
    /\ \A k \in DOMAIN results :
          RunSent(k) =>
             /\ Cardinality(PullsSent(k)) = 1
             /\ \A i \in PullsSent(k) :
                   i > 1 /\ sent[i - 1].type = "RUN" /\ sent[i - 1].run = k
    /\ \A k \in DOMAIN results :
          results[k].returned
          => (/\ results[k].records = Expected(results[k].stmt)
              /\ IsPrefix(results[k].got, results[k].records))

\* The statement was run on a Session obtained with fetch size 2 and the
\* caller has read the records 1, 2, 3, 4 from its Result.
C16_Witness ==
    /\ FetchSize = 2
    /\ \E k \in DOMAIN results :
          /\ results[k].stmt = "UNWIND"
          /\ results[k].returned
          /\ results[k].got = << Record(<<"x">>, <<1>>), Record(<<"x">>, <<2>>),
                                 Record(<<"x">>, <<3>>), Record(<<"x">>, <<4>>) >>

\* Run k was answered with SUCCESS to RUN and SUCCESS to PULL_ALL.
Succeeded(k) ==
    /\ results[k].header
    /\ results[k].pullComplete
    /\ k \notin server.failed

Committed(t) ==
    \E k \in DOMAIN results :
        results[k].tx = t /\ results[k].stmt = "COMMIT" /\ Succeeded(k)

RolledBack(t) ==
    \E k \in DOMAIN results :
        results[k].tx = t /\ results[k].stmt = "ROLLBACK" /\ Succeeded(k)

\* work failed in attempt n with an error of this kind.
WorkFailed(n, kind) ==
    /\ n \in DOMAIN exec.attempts
    /\ exec.attempts[n].error.kind = kind
    /\ exec.attempts[n].error.from \in {"run", "work"}

\* C17: when work failed with a transient error in attempt 1 and execute has
\* returned after attempt 2, work was invoked twice, with two different
\* Transactions; the first is closed and rolled back, never committed, the
\* second is closed and committed, never rolled back; execute returned what
\* work returned in attempt 2, the records of its statement.
C17_RetryAfterTransient ==
    (/\ exec.state = "returned"
     /\ Len(exec.attempts) = 2
     /\ WorkFailed(1, "transient"))
    => LET t1 == exec.attempts[1].tx
           t2 == exec.attempts[2].tx
       IN /\ exec.invoked = 2
          /\ t1 \in DOMAIN txs /\ t2 \in DOMAIN txs
          /\ t1 # t2
          /\ txs[t1].closed /\ RolledBack(t1) /\ ~Committed(t1)
          /\ txs[t2].closed /\ Committed(t2) /\ ~RolledBack(t2)
          /\ exec.result = exec.attempts[2].value
          /\ exec.result = Expected("A")

\* Transaction.run raised CypherError in attempt 1, classified transient,
\* and execute has returned after attempt 2.
C17_Witness ==
    /\ exec.state = "returned"
    /\ Len(exec.attempts) = 2
    /\ WorkFailed(1, "transient")
    /\ exec.attempts[1].error.from = "run"

\* C18: when work failed with a client error in attempt 1, there is no
\* second attempt and no COMMIT is ever sent; once the rollback has ended
\* execute raises that very error, with work invoked once.
C18_NoRetryAfterClientError ==
    WorkFailed(1, "client")
    => (/\ Len(exec.attempts) = 1
        /\ exec.invoked = 1
        /\ \A i \in DOMAIN sent : sent[i].stmt # "COMMIT"
        /\ \A t \in DOMAIN txs : ~Committed(t)
        /\ exec.state \in {"rollback", "raised"}
        /\ exec.state = "raised" => exec.error = exec.attempts[1].error)

\* work raised a client error of its own after its statement had run, and
\* execute has raised it after rolling the Transaction back.
C18_Witness ==
    /\ exec.state = "raised"
    /\ WorkFailed(1, "client")
    /\ exec.attempts[1].error.from = "work"
    /\ RolledBack(exec.attempts[1].tx)

\* The step starts a Session.run call.
CallStarts == pc = "idle" /\ pc' = "send"

\* C19: a Session.run call queues RUN and directly behind it PULL_ALL, both
\* for its own statement, and sends nothing by that; one send flushes
\* exactly these two, before any response of the call is handled; between
\* the start of the call and its send nothing is fetched; and no response to
\* PULL_ALL is handled before the response to RUN is complete.
C19_Pipelined ==
    /\ [][CallStarts
          => (/\ outbox = << >>
              /\ Len(outbox') = 2
              /\ outbox'[1].type = "RUN" /\ outbox'[2].type = "PULL_ALL"
              /\ outbox'[1].run = ctx'.res /\ outbox'[2].run = ctx'.res
              /\ outbox'[1].stmt = results'[ctx'.res].stmt
              /\ outbox'[2].stmt = results'[ctx'.res].stmt
              /\ sent' = sent /\ wire' = wire /\ inbound' = inbound)]_vars
    /\ [][sent' # sent
          => (/\ pc = "send" /\ pc' = "fetch"
              /\ Len(outbox) = 2 /\ outbox' = << >>
              /\ sent' = sent \o outbox
              /\ wire' = wire \o outbox
              /\ inbound' = inbound
              /\ ~results[ctx.res].runComplete
              /\ ~results[ctx.res].pullComplete)]_vars
    /\ [][pc = "send"
          => (/\ Len(inbound') >= Len(inbound)
              /\ responses' = responses
              /\ results' = results)]_vars
    /\ [](\A k \in DOMAIN results :
            (results[k].pullComplete \/ results[k].records # << >>)
            => results[k].runComplete)

\* Transaction.run of B has handled SUCCESS to its RUN and the first record
\* of its PULL_ALL, which is still open.
C19_Witness ==
    \E k \in DOMAIN results :
        /\ results[k].stmt = "B" /\ results[k].op = "txrun"
        /\ ctx.res = k
        /\ results[k].runComplete
        /\ Len(results[k].records) = 1
        /\ ~results[k].pullComplete

\* C20: a Session.run call that has started ends, given that the caller and
\* the server go on; it returns only when its pull_all_response is complete,
\* and otherwise it ends by raising the FAILURE it has just fetched as
\* CypherError; a Result handed to the caller has its stream complete.
C20_RunEnds ==
    /\ (pc # "idle") ~> (pc = "idle")
    /\ [][(pc # "idle" /\ pc' = "idle")
          => (/\ outcome'.err \in {"none", "CypherError"}
              /\ outcome'.err = "none"
                    => (/\ results[ctx.res].pullComplete
                        /\ results'[ctx.res].pullComplete)
              /\ outcome'.err = "CypherError" => FailureFetched)]_vars
    /\ [](\A k \in DOMAIN results :
            results[k].returned => results[k].pullComplete)

\* A third call has returned its Result after an earlier call had ended
\* with CypherError.
C20_Witness ==
    /\ Len(results) = 3
    /\ pc = "idle"
    /\ results[3].returned
    /\ server.failed # {}

\* The methods that end in Transaction.close.
ClosingOps == {"commit", "rollback", "close", "exit"}

\* The FAILURE that answered run k has been fetched.
FailureRead(k) ==
    /\ k \in server.failed
    /\ \A i \in UnreadFailures : inbound[i].run # k

\* C21: while the latest call is a commit, rollback, close or __exit__ that
\* ended with CypherError, its Transaction is not closed and
\* session.transaction refers to it; no COMMIT or ROLLBACK answered with
\* FAILURE is taken as done; and a Transaction that is closed has had a
\* COMMIT or ROLLBACK answered with SUCCESS to RUN and to PULL_ALL.
C21_FailedTerminalChangesNothing ==
    /\ (pc = "idle" /\ outcome.op \in ClosingOps /\ outcome.err = "CypherError")
       => (/\ ~txs[outcome.tx].closed
           /\ transaction = outcome.tx)
    /\ \A k \in DOMAIN results :
          (results[k].stmt \in {"COMMIT", "ROLLBACK"} /\ FailureRead(k))
          => (/\ ctx.res # k
              /\ ~Succeeded(k)
              /\ ~results[k].returned)
    /\ \A t \in DOMAIN txs :
          txs[t].closed => (Committed(t) \/ RolledBack(t))

\* commit() of a Transaction ended with CypherError after FAILURE to the
\* PULL_ALL behind COMMIT, and the Transaction is still the Session's.
C21_Witness ==
    /\ pc = "idle"
    /\ outcome.op = "commit" /\ outcome.err = "CypherError"
    /\ results[Len(results)].stmt = "COMMIT"
    /\ results[Len(results)].header
    /\ FailureRead(Len(results))
    /\ transaction = outcome.tx

\* The latest call is a new_transaction whose BEGIN was answered with FAILURE.
BeginFailedLast ==
    /\ pc = "idle"
    /\ outcome.op = "begin"
    /\ outcome.err = "CypherError"

\* C22: after new_transaction has ended with CypherError,
\* session.transaction is None and the Transaction object that sent the
\* BEGIN is not handed to the caller; a Transaction whose BEGIN was answered
\* with FAILURE is never handed to the caller nor assigned to
\* session.transaction; and a new_transaction called next after the failed
\* one passes the assertion and queues its BEGIN.
C22_FailedBeginLeavesIdle ==
    /\ [](BeginFailedLast
            => (/\ transaction = 0
                /\ outcome.tx \in DOMAIN txs
                /\ ~txs[outcome.tx].begun
                /\ FailureRead(Len(results))))
    /\ [](\A k \in DOMAIN results :
            (results[k].stmt = "BEGIN" /\ FailureRead(k))
            => (/\ ctx.res # k
                /\ ~txs[results[k].tx].begun
                /\ results[k].tx \notin handles
                /\ transaction # results[k].tx))
    /\ [][(BeginFailedLast /\ \E w \in BOOLEAN : NewTransaction(w))
          => (/\ outcome'.err = "pending"
              /\ Len(txs') = Len(txs) + 1
              /\ Len(outbox') = 2
              /\ outbox'[1].stmt = "BEGIN")]_vars

\* The first new_transaction ended with CypherError and the second has
\* returned a Transaction.
C22_Witness ==
    /\ Len(txs) = 2
    /\ ~txs[1].begun
    /\ 1 \in server.failed
    /\ txs[2].begun
    /\ transaction = 2
    /\ handles = {2}

\* The Transaction new_transaction returned last.
LatestHandle == CHOOSE t \in handles : \A u \in handles : u <= t

\* C23: session.transaction never refers to a closed Transaction; a
\* Transaction whose BEGIN succeeded and that is not closed is the one
\* session.transaction refers to; and whenever no call is in progress,
\* session.transaction is None or the Transaction new_transaction returned
\* last, which is not closed.
C23_SessionTransactionIsTheOpenOne ==
    /\ transaction # 0
          => (transaction \in DOMAIN txs /\ ~txs[transaction].closed)
    /\ \A t \in DOMAIN txs :
          (txs[t].begun /\ ~txs[t].closed) => transaction = t
    /\ (pc = "idle" /\ transaction # 0)
          => (/\ handles # {}
              /\ transaction = LatestHandle
              /\ txs[transaction].begun)

\* A second Transaction is the Session's after the first was closed, and
\* Transaction.run on the closed one has just been refused.
C23_Witness ==
    /\ pc = "idle"
    /\ handles = {1, 2}
    /\ txs[1].closed
    /\ transaction = 2
    /\ outcome = [op |-> "txrun", tx |-> 1, err |-> "AssertionError"]

\* C24: a lookup by a valid position on a Record returns the value at that
\* position, whatever the field names are, also when a name occurs twice.
C24_PositionalLookup ==
    (/\ lookup.made
     /\ lookup.item.type = "integer"
     /\ lookup.item.position \in Positions(lookup.record))
    => lookup.result = ReturnedValue(lookup.record.values[lookup.item.position + 1])
====
